---- MODULE Spec2Model ----
(***************************************************************************)
(* State-machine model of SupportLeaderboardSlackbot.py: the retry         *)
(* wrapper, the week-range calculator, the reaction counter, the           *)
(* duplicate-leaderboard guard and the main loop.                          *)
(***************************************************************************)
EXTENDS Integers, Sequences, FiniteSets, TLC

VARIABLES
    now,            \* datetime.now(), in seconds since the model's epoch
    weeks_ago,      \* argument of get_week_range / loop variable of main
    start_date,     \* last_monday returned by get_week_range (None before)
    end_date,       \* last_sunday returned by get_week_range (None before)
    outcomes,       \* what api_func() did on its 1st, 2nd, ... invocation
    exec,           \* the state of the retry_api_call in progress
    pc,             \* where main is: "idle" when no run is in progress
    status,         \* how the last run ended, "running" during a run
    weeks_to_process,
    widx,           \* position of the for loop of main in weeks_to_process
    consulted,      \* the weeks_ago values whose duplicate check has run
    channel,        \* history of the leaderboard channel, oldest first
    guard,          \* what check_for_duplicate_leaderboard last did
    cursor,         \* get_channel_messages: next_cursor of the last page
    all_messages,   \* get_channel_messages: all_messages / messages
    msg_i,          \* count_resolutions_by_reactions: messages done
    resolver_ids,   \* reactors of the current message still to count
    resolutions,    \* the Counter, as <<[name, count]>> in insertion order
    credits,        \* every increment made: [user, name, ts], in order
    blocks,         \* the leaderboard lines of the last chat_postMessage
    served,         \* the get_channel_messages call in progress or just
                    \* returned: [cursor sent, page, next_cursor] per request
    lookups         \* the kinds of error get_reactions_for_message turned
                    \* into {} in this window

windowVars == <<now, weeks_ago, start_date, end_date>>
execVars == <<outcomes, exec>>
runVars == <<pc, status, weeks_to_process, widx, consulted, channel, guard>>
countVars == <<cursor, all_messages, msg_i, resolver_ids, resolutions, credits, blocks,
               served, lookups>>
vars == <<now, weeks_ago, start_date, end_date, outcomes, exec,
          pc, status, weeks_to_process, widx, consulted, channel, guard,
          cursor, all_messages, msg_i, resolver_ids, resolutions, credits, blocks,
          served, lookups>>

None == -1

(***************************************************************************)
(* Time.  The epoch (second 0) is Monday 2025-12-01 00:00:00 local time;   *)
(* datetime values are naive, so a day always has 86400 seconds.           *)
(***************************************************************************)
SecondsPerDay == 24 * 60 * 60

FirstDay == 35        \* earliest day "now" is drawn from (Monday 2026-01-05)
MaxDays == 13         \* "now" ranges over FirstDay .. FirstDay + MaxDays
MaxWeeksAgo == 2      \* weeks_ago ranges over 0 .. MaxWeeksAgo

TimesOfDay == {0, 1, 43200, 86399}
Clock == {d * SecondsPerDay + t : d \in FirstDay..(FirstDay + MaxDays), t \in TimesOfDay}

DayOf(t) == t \div SecondsPerDay
\* datetime.weekday(): Monday is 0, Sunday is 6
Weekday(t) == DayOf(t) % 7
\* datetime.replace(hour=0, minute=0, second=0, microsecond=0)
Midnight(t) == t - (t % SecondsPerDay)

IsLeap(y) == (y % 4 = 0 /\ y % 100 # 0) \/ y % 400 = 0
DaysInMonth(y, m) ==
    IF m = 2 THEN (IF IsLeap(y) THEN 29 ELSE 28)
    ELSE IF m \in {4, 6, 9, 11} THEN 30 ELSE 31

RECURSIVE Civil(_, _, _)
\* the calendar date <<year, month, day>> that lies d days after y-m-01
Civil(d, y, m) ==
    IF d < DaysInMonth(y, m) THEN <<y, m, d + 1>>
    ELSE Civil(d - DaysInMonth(y, m),
               IF m = 12 THEN y + 1 ELSE y,
               IF m = 12 THEN 1 ELSE m + 1)

DateOf(t) == Civil(DayOf(t), 2025, 12)

MonthAbbr == <<"Jan", "Feb", "Mar", "Apr", "May", "Jun",
               "Jul", "Aug", "Sep", "Oct", "Nov", "Dec">>

\* f"{start_date.strftime('%b %d')} - {end_date.strftime('%b %d, %Y')}"
DateRangeStr(s, e) ==
    <<MonthAbbr[DateOf(s)[2]], DateOf(s)[3],
      MonthAbbr[DateOf(e)[2]], DateOf(e)[3], DateOf(e)[1]>>

(***************************************************************************)
(* get_week_range                                                          *)
(***************************************************************************)
DaysSinceMonday(today) ==
    IF (Weekday(today) + 7) % 7 = 0 THEN 7 ELSE (Weekday(today) + 7) % 7

\* get_week_range without the .replace(hour=0, ...) of line 70
LastMondayKeepsTime(today, w) ==
    today - (DaysSinceMonday(today) + 7 + (w * 7)) * SecondsPerDay

LastMonday(today, w) ==
    Midnight(today - (DaysSinceMonday(today) + 7 + (w * 7)) * SecondsPerDay)

LastSunday(monday) == monday + 6 * SecondsPerDay + 23 * 3600 + 59 * 60 + 59

GetWeekRange(today, w) == <<LastMonday(today, w), LastSunday(LastMonday(today, w))>>

InitWindow ==
    /\ now \in Clock
    /\ weeks_ago \in 0..MaxWeeksAgo
    /\ start_date = None
    /\ end_date = None

GetWeekRangeCall ==
    /\ start_date = None
    /\ start_date' = GetWeekRange(now, weeks_ago)[1]
    /\ end_date' = GetWeekRange(now, weeks_ago)[2]
    /\ UNCHANGED <<now, weeks_ago>>

(***************************************************************************)
(* retry_api_call                                                          *)
(***************************************************************************)
MAX_RETRIES == 3
INITIAL_RETRY_DELAY == 1

NoHeader == -1        \* the response carries no Retry-After header
RetryAfterValues == {NoHeader, 2, 5}
ResultValues == {1, 2}
TransientErrors == {"service_unavailable", "internal_error"}
FatalErrors == {"channel_not_found", "message_not_found", "missing_scope"}

Response(err, ra, v) == [error |-> err, retry_after |-> ra, value |-> v]

\* what one invocation of api_func() can do: return a value, or raise
\* SlackApiError with e.response["error"] = error
Outcomes ==
    {Response("ok", NoHeader, v) : v \in ResultValues}
    \cup {Response("rate_limited", ra, None) : ra \in RetryAfterValues}
    \cup {Response(err, NoHeader, None) : err \in TransientErrors \cup FatalErrors}

\* the local state of one retry_api_call: the loop variable, retry_delay,
\* and how the call ended; calls and sleeps record what it did
NotCalled ==
    [status |-> "none", attempt |-> 0, retry_delay |-> 0, calls |-> 0,
     sleeps |-> <<>>, value |-> None, exc |-> "none", error |-> "none"]

\* retry_delay = INITIAL_RETRY_DELAY, before the first iteration
Entered ==
    [NotCalled EXCEPT !.status = "running", !.retry_delay = INITIAL_RETRY_DELAY]

Return(st, v) == [st EXCEPT !.status = "returned", !.value = v]
Raise(st, cls, err) == [st EXCEPT !.status = "raised", !.exc = cls, !.error = err]

\* retry_api_call with the loop running one iteration too many
ContinueOffByOne(st, max_retries) ==
    IF st.attempt + 1 > max_retries
    THEN Raise([st EXCEPT !.attempt = st.attempt + 1], "Exception", "max_retries")
    ELSE [st EXCEPT !.attempt = st.attempt + 1]

\* the end of one iteration that did not leave the function: the next
\* iteration, or line 55 when range(max_retries) is used up
Continue(st, max_retries) ==
    IF st.attempt + 1 >= max_retries
    THEN Raise([st EXCEPT !.attempt = st.attempt + 1], "Exception", "max_retries")
    ELSE [st EXCEPT !.attempt = st.attempt + 1]

Sleep(st, secs) == [st EXCEPT !.sleeps = Append(st.sleeps, secs)]

\* retry_api_call sleeping the same delay before every retry
BackoffConstant(delay) == delay

\* retry_delay *= 2
Backoff(delay) == delay * 2

\* retry_api_call with the final else branch handled like a transient error
IterationBodyRetriesAll(st, e, max_retries) ==
    LET called == [st EXCEPT !.calls = st.calls + 1] IN
    IF e.error = "ok"
    THEN Return(called, e.value)
    ELSE IF e.error = "rate_limited"
    THEN LET retry_after == IF e.retry_after = NoHeader
                            THEN st.retry_delay ELSE e.retry_after
         IN Continue([Sleep(called, retry_after) EXCEPT !.retry_delay = retry_after],
                     max_retries)
    ELSE IF st.attempt < max_retries - 1
         THEN Continue([Sleep(called, st.retry_delay)
                            EXCEPT !.retry_delay = st.retry_delay * 2],
                       max_retries)
         ELSE Raise(called, "SlackApiError", e.error)

\* one iteration of the for loop: api_func() is invoked and does e
IterationBody(st, e, max_retries) ==
    LET called == [st EXCEPT !.calls = st.calls + 1] IN
    IF e.error = "ok"
    THEN Return(called, e.value)
    ELSE IF e.error = "rate_limited"
    THEN LET retry_after == IF e.retry_after = NoHeader
                            THEN st.retry_delay ELSE e.retry_after
         IN Continue([Sleep(called, retry_after) EXCEPT !.retry_delay = retry_after],
                     max_retries)
    ELSE IF e.error \in TransientErrors
    THEN IF st.attempt < max_retries - 1
         THEN Continue([Sleep(called, st.retry_delay)
                            EXCEPT !.retry_delay = Backoff(st.retry_delay)],
                       max_retries)
         ELSE Raise(called, "SlackApiError", e.error)
    ELSE Raise(called, "SlackApiError", e.error)

RetryLimit == MAX_RETRIES

RECURSIVE RetryLoop(_, _, _)
\* the whole loop, api_func() doing outs[1], outs[2], ... in turn
RetryLoop(st, outs, max_retries) ==
    IF st.status # "running" THEN st
    ELSE RetryLoop(IterationBody(st, outs[st.attempt + 1], max_retries),
                   outs, max_retries)

RetryApiCall(outs) == RetryLoop(Entered, outs, RetryLimit)

InitExec ==
    /\ outcomes = <<>>
    /\ exec = Entered

\* SpecExec runs one retry_api_call(api_func) iteration by iteration
Attempt ==
    /\ exec.status = "running"
    /\ \E e \in Outcomes :
        /\ outcomes' = Append(outcomes, e)
        /\ exec' = IterationBody(exec, e, RetryLimit)

(***************************************************************************)
(* The Slack workspace seen through the API                                *)
(***************************************************************************)
RESOLUTION_EMOJI == "white_check_mark"
BotUser == "UBOT"     \* auth_test()["user_id"]
UserIds == {"U1", "U2", "B1", "B2"}

\* users_info(user=u)["user"]: "B1" and "B2" are bots, "B2" has no
\* real_name, "U2" has no is_bot field
UserDirectory ==
    [u \in UserIds |->
        CASE u = "U1" -> [real_name |-> "Ann", is_bot |-> FALSE]
          [] u = "U2" -> [real_name |-> "Bob"]
          [] u = "B1" -> [real_name |-> "Helper", is_bot |-> TRUE]
          [] u = "B2" -> [is_bot |-> TRUE]]

FlaggedBot(u) == "is_bot" \in DOMAIN UserDirectory[u] /\ UserDirectory[u].is_bot

\* how a retry_api_call can end, whatever the remote side does
EndOf(st) == [status |-> st.status, exc |-> st.exc, error |-> st.error]
ExecEnds == {EndOf(RetryApiCall(outs)) : outs \in [1..(MAX_RETRIES + 1) -> Outcomes]}

\* a message of conversations.history, as far as the program reads it
Message(ts, names) == [ts |-> ts, reactions |-> names]
MsgPool == {Message(1, {RESOLUTION_EMOJI}), Message(2, {RESOLUTION_EMOJI}),
            Message(3, {"eyes"})}

\* reaction_data of get_reactions_for_message: emoji name -> user ids
EmptyDict == [e \in {} |-> <<>>]
ResolvedBy(users) == [e \in {RESOLUTION_EMOJI} |-> users]
ReactorLists == {<<"U1">>, <<"B1">>, <<"U1", "U2">>, <<"U2", "U1">>, <<"U1", "B2">>}
ReactionDicts ==
    {EmptyDict, [e \in {"eyes"} |-> <<"U1">>]}
    \cup {ResolvedBy(ul) : ul \in ReactorLists}

MaxMsgs == 2          \* SpecCount: at most MaxMsgs messages in the range
MessageLists == UNION {[1..n -> MsgPool] : n \in 0..MaxMsgs}

\* SpecFetch: the pages the support channel's history is served in, the
\* next_cursor values it hands out, and how many pages one fetch may take
FetchPages ==
    {<<>>, <<Message(1, {RESOLUTION_EMOJI})>>,
     <<Message(2, {RESOLUTION_EMOJI, "eyes"}), Message(3, {"eyes"})>>}
CursorTokens == {1, 2}
FetchMaxPages == 3

\* the inputs the whole-run specification draws from
MainPages == {<<>>, <<Message(1, {RESOLUTION_EMOJI})>>}
MainReactionDicts == {ResolvedBy(<<"U1">>)}
MainTokens == {1}     \* next_cursor values of the support channel
MainMaxPages == 1     \* history pages per fetch in the whole-run specification

(***************************************************************************)
(* The leaderboard channel                                                 *)
(***************************************************************************)
ScanLimit == 2        \* stands for limit=100 of the duplicate check
MaxChan == 4          \* the channel history holds at most MaxChan entries
MaxTicks == 1         \* days the clock advances during the model's runs

NoLabel == <<>>
\* a history entry as the duplicate check reads it: message.get("user"),
\* and whether message.get("text") contains the title and which date
\* range it contains
Entry(user, title, label) == [user |-> user, title |-> title, label |-> label]

\* text=f"Weekly Resolution Leaderboard ({date_range})", posted by the bot
LeaderboardEntry(s, e) == Entry(BotUser, TRUE, DateRangeStr(s, e))

MainNow0 == FirstDay * SecondsPerDay + 43200
EnvLabel == DateRangeStr(GetWeekRange(MainNow0, 0)[1], GetWeekRange(MainNow0, 0)[2])
\* what others (and other uses of the bot's token) write to the channel
EnvEntries == {Entry("U1", FALSE, NoLabel), Entry("U1", TRUE, EnvLabel),
               Entry(BotUser, FALSE, EnvLabel)}

\* conversations_history(channel, limit): the most recent entries
RecentFrom(chan) == IF Len(chan) > ScanLimit THEN Len(chan) - ScanLimit + 1 ELSE 1
Recent(chan) == SubSeq(chan, RecentFrom(chan), Len(chan))

(***************************************************************************)
(* check_for_duplicate_leaderboard                                         *)
(***************************************************************************)
\* the duplicate check without the test of message.get("user")
IsDuplicateOfAnyAuthor(message, bot_user_id, date_range_str) ==
    /\ message.title
    /\ message.label = date_range_str

IsDuplicateOf(message, bot_user_id, date_range_str) ==
    /\ message.user = bot_user_id
    /\ message.title
    /\ message.label = date_range_str

\* the duplicate check comparing message.get("user") with the bot's name
\* (auth_result["user"]) instead of its id
CheckForDuplicateByBotName(r_auth, r_hist, messages, s, e) ==
    IF r_auth.status # "returned" \/ r_hist.status # "returned"
    THEN FALSE
    ELSE \E i \in 1..Len(messages) :
            IsDuplicateOfAnyAuthor(messages[i], BotUser, DateRangeStr(s, e))
            /\ messages[i].user = "leaderboard-bot"

\* the duplicate check with "return True" in its except branch
CheckForDuplicateFailsClosed(r_auth, r_hist, messages, s, e) ==
    IF r_auth.status # "returned" \/ r_hist.status # "returned"
    THEN TRUE
    ELSE \E i \in 1..Len(messages) :
            /\ messages[i].user = BotUser
            /\ messages[i].title
            /\ messages[i].label = DateRangeStr(s, e)

\* r_auth, r_hist: how the auth_test and conversations_history calls end
CheckForDuplicateLeaderboard(r_auth, r_hist, messages, s, e) ==
    IF r_auth.status # "returned" \/ r_hist.status # "returned"
    THEN FALSE
    ELSE \E i \in 1..Len(messages) :
            IsDuplicateOf(messages[i], BotUser, DateRangeStr(s, e))

NoGuard == [checked |-> FALSE, failed |-> FALSE, result |-> FALSE, from |-> 1, to |-> 0]

(***************************************************************************)
(* count_resolutions_by_reactions                                          *)
(***************************************************************************)
\* Counter[name] += 1; a new key goes last
Inc(res, name) ==
    IF \E i \in 1..Len(res) : res[i].name = name
    THEN [i \in 1..Len(res) |->
            IF res[i].name = name
            THEN [name |-> name, count |-> res[i].count + 1] ELSE res[i]]
    ELSE Append(res, [name |-> name, count |-> 1])

FallbackLabel(user_id) == "User " \o user_id

\* lines 201-215 for one user_id: the names that get an increment (none or
\* one); r is how the users_info call ends
CreditedNames(user_id, r) ==
    IF r.status = "returned"
    THEN LET user == UserDirectory[user_id] IN
         IF "real_name" \notin DOMAIN user
         THEN <<FallbackLabel(user_id)>>        \* KeyError, caught at line 213
         ELSE IF "is_bot" \in DOMAIN user /\ user.is_bot
         THEN <<>>
         ELSE <<user.real_name>>
    ELSE <<FallbackLabel(user_id)>>

\* get_reactions_for_message: r is how the reactions_get call ends, data
\* the reaction_data of a successful call
GetReactionsForMessage(r, data) ==
    IF r.status = "returned" THEN [raised |-> FALSE, value |-> data]
    ELSE IF r.exc = "SlackApiError" THEN [raised |-> FALSE, value |-> EmptyDict]
    ELSE [raised |-> TRUE, value |-> EmptyDict]

\* the except branch of get_reactions_for_message an error code ends in,
\* the second one split by whether retry_api_call had retried it
LookupFailure(error) ==
    IF error = "message_not_found" THEN "not_found"
    ELSE IF error \in TransientErrors THEN "transient"
    ELSE "other"

\* reactions.get(RESOLUTION_EMOJI, [])
ResolverIds(reactions) ==
    IF RESOLUTION_EMOJI \in DOMAIN reactions THEN reactions[RESOLUTION_EMOJI] ELSE <<>>

RECURSIVE InsertByCount(_, _)
\* sorted so far, descending; x goes behind every entry that counts at
\* least as much (sorted() is stable)
InsertByCount(sorted, x) ==
    IF sorted = <<>> THEN <<x>>
    ELSE IF Head(sorted).count >= x.count
    THEN <<Head(sorted)>> \o InsertByCount(Tail(sorted), x)
    ELSE <<x>> \o sorted

\* post_leaderboard iterating over resolutions.items() instead of
\* resolutions.most_common()
MostCommonUnsorted(res) == res

RECURSIVE MostCommon(_)
\* Counter.most_common()
MostCommon(res) ==
    IF res = <<>> THEN <<>>
    ELSE InsertByCount(MostCommon(SubSeq(res, 1, Len(res) - 1)), res[Len(res)])

LocalsCleared ==
    /\ cursor' = None
    /\ all_messages' = <<>>
    /\ msg_i' = 0
    /\ resolver_ids' = <<>>
    /\ resolutions' = <<>>
    /\ credits' = <<>>
    /\ blocks' = <<>>
    /\ served' = <<>>
    /\ lookups' = {}

CountIdle ==
    /\ cursor = None
    /\ all_messages = <<>>
    /\ msg_i = 0
    /\ resolver_ids = <<>>
    /\ resolutions = <<>>
    /\ credits = <<>>
    /\ blocks = <<>>
    /\ served = <<>>
    /\ lookups = {}

\* an exception leaves main uncaught: the process ends with a traceback
Crash ==
    /\ pc' = "idle"
    /\ status' = "crashed"
    /\ guard' = NoGuard
    /\ weeks_ago' = 0
    /\ start_date' = None
    /\ end_date' = None
    /\ LocalsCleared
    /\ UNCHANGED <<now, weeks_to_process, widx, consulted, channel>>

\* the for loop of main moves to its next element, or main returns
LoopOn ==
    /\ IF widx < Len(weeks_to_process)
       THEN /\ widx' = widx + 1
            /\ pc' = "guard"
            /\ status' = status
            /\ UNCHANGED <<guard, weeks_ago, start_date, end_date>>
       ELSE /\ widx' = widx
            /\ pc' = "idle"
            /\ status' = "complete"
            /\ guard' = NoGuard
            /\ weeks_ago' = 0
            /\ start_date' = None
            /\ end_date' = None
    /\ LocalsCleared

\* get_channel_messages keeping only the page it received last
ExtendReplaces(list, messages) == messages

\* all_messages.extend(messages)
Extend(list, messages) == list \o messages

\* get_channel_messages: one pass of the while loop; the request carries
\* cursor when it is set, the response a page and perhaps a next_cursor
FetchPage(pageSet, maxPages, tokens) ==
    /\ pc = "fetch"
    /\ \E r \in ExecEnds :
        IF r.status = "returned"
        THEN \E page \in pageSet, next_cursor \in tokens \cup {None} :
                /\ next_cursor # None => Len(served) + 1 < maxPages
                /\ served' = Append(served, [cursor |-> cursor, page |-> page,
                                             next_cursor |-> next_cursor])
                /\ all_messages' = Extend(all_messages, page)
                /\ cursor' = next_cursor
                /\ pc' = IF next_cursor = None THEN "scan" ELSE "fetch"
                /\ UNCHANGED <<now, weeks_ago, start_date, end_date, status,
                               weeks_to_process, widx, consulted, channel, guard,
                               msg_i, resolver_ids, resolutions, credits, blocks,
                               lookups>>
        ELSE Crash

\* the for loop over messages, up to the reactions of one message
NextMessage(dicts) ==
    /\ pc = "scan"
    /\ msg_i < Len(all_messages)
    /\ LET message == all_messages[msg_i + 1] IN
       IF RESOLUTION_EMOJI \notin message.reactions
       THEN /\ msg_i' = msg_i + 1
            /\ UNCHANGED <<pc, resolver_ids, status, guard, weeks_ago, start_date,
                           end_date, cursor, all_messages, resolutions, credits,
                           blocks, lookups>>
            /\ served' = <<>>
            /\ UNCHANGED <<now, weeks_to_process, widx, consulted, channel>>
       ELSE \E r \in ExecEnds, data \in dicts :
            LET got == GetReactionsForMessage(r, data) IN
            IF got.raised
            THEN Crash
            ELSE /\ resolver_ids' = ResolverIds(got.value)
                 /\ IF ResolverIds(got.value) = <<>>
                    THEN msg_i' = msg_i + 1 /\ pc' = "scan"
                    ELSE msg_i' = msg_i /\ pc' = "credit"
                 /\ lookups' = IF r.status = "returned" THEN lookups
                               ELSE lookups \cup {LookupFailure(r.error)}
                 /\ UNCHANGED <<status, guard, weeks_ago, start_date, end_date,
                                cursor, all_messages, resolutions, credits, blocks>>
                 /\ served' = <<>>
                 /\ UNCHANGED <<now, weeks_to_process, widx, consulted, channel>>

\* one pass of the for loop over resolver_ids
Credit ==
    /\ pc = "credit"
    /\ resolver_ids # <<>>
    /\ \E r \in ExecEnds :
        LET user_id == Head(resolver_ids)
            names == CreditedNames(user_id, r)
        IN /\ resolutions' = IF names = <<>> THEN resolutions
                             ELSE Inc(resolutions, names[1])
           /\ credits' = IF names = <<>> THEN credits
                         ELSE Append(credits, [user |-> user_id, name |-> names[1],
                                               ts |-> all_messages[msg_i + 1].ts])
           /\ resolver_ids' = Tail(resolver_ids)
           /\ IF Tail(resolver_ids) = <<>>
              THEN msg_i' = msg_i + 1 /\ pc' = "scan"
              ELSE msg_i' = msg_i /\ pc' = "credit"
    /\ UNCHANGED <<now, weeks_ago, start_date, end_date, status, weeks_to_process,
                   widx, consulted, channel, guard, cursor, all_messages, blocks,
                   served, lookups>>

\* count_resolutions_by_reactions returns its Counter to main
CountReturn ==
    /\ pc = "scan"
    /\ msg_i = Len(all_messages)
    /\ pc' = "post"
    /\ served' = <<>>
    /\ UNCHANGED <<now, weeks_ago, start_date, end_date, status, weeks_to_process,
                   widx, consulted, channel, guard, cursor, all_messages, msg_i,
                   resolver_ids, resolutions, credits, blocks, lookups>>

(***************************************************************************)
(* The workflow-message strategy of the Signal Validator and the           *)
(* Deduplicator.  The source file has the reaction strategy only; this     *)
(* part follows sections 4.4 and 4.5 of the specification.                 *)
(***************************************************************************)
WorkflowBots == {"BWF", "BOTHER"}
MentionTokens == {"<@U1>", "<@U2>"}
ThreadUrls == {"https://x/t1", "https://x/t2"}

\* a message text, as its words
WorkflowTexts ==
    {<<"thread", "resolved", "by", "<@U1>", "https://x/t1">>,
     <<"thread", "resolved", "by", "<@U2>", "https://x/t1">>,
     <<"thread", "resolved", "by", "<@U1>", "https://x/t2">>,
     <<"thread", "resolved", "by", "nobody", "https://x/t2">>,
     <<"thanks", "<@U1>", "https://x/t1">>}

\* where the words "thread resolved by <mention>" start in a text
PatternStarts(text) ==
    {i \in 1..(Len(text) - 3) :
        /\ SubSeq(text, i, i + 2) = <<"thread", "resolved", "by">>
        /\ text[i + 3] \in MentionTokens}

MatchesPattern(text) == PatternStarts(text) # {}

\* the user id inside the mention of the pattern: "<@U1>" gives "U1"
MentionedAgent(text) ==
    LET i == CHOOSE k \in PatternStarts(text) : \A j \in PatternStarts(text) : k <= j
        token == text[i + 3]
    IN CHOOSE u \in UserIds : "<@" \o u \o ">" = token

\* the thread URL embedded in a text: the thread_key of its signal
ThreadKey(text) ==
    LET at == {i \in 1..Len(text) : text[i] \in ThreadUrls}
    IN text[CHOOSE k \in at : \A j \in at : k <= j]

\* an event: bot_id is "none" for a message a person wrote
WorkflowEvent(ts, bot_id, text) == [ts |-> ts, bot_id |-> bot_id, text |-> text]

AuthoredByBot(event) == event.bot_id # "none"

\* the histories SpecWorkflow draws from: the ts of an event is its place
WorkflowHistories ==
    UNION {{[i \in 1..n |-> WorkflowEvent(i, c[i][1], c[i][2])] :
                c \in [1..n -> ({"none"} \cup WorkflowBots) \X WorkflowTexts]} :
           n \in 0..MaxMsgs}

\* the trusted workflow identity: the author of the first bot-authored
\* event of the history that matches the pattern ("none" when there is none)
DetectTrusted(events) ==
    LET hits == {i \in 1..Len(events) :
                    AuthoredByBot(events[i]) /\ MatchesPattern(events[i].text)}
    IN IF hits = {} THEN "none"
       ELSE events[CHOOSE k \in hits : \A j \in hits : k <= j].bot_id

\* a validator that takes anybody's matching text for a signal
ExtractSignalsAnyAuthor(event, check_identity, trusted) ==
    IF MatchesPattern(event.text)
    THEN <<[resolving_agent_ref |-> MentionedAgent(event.text),
            thread_key |-> ThreadKey(event.text),
            raw_event_id |-> event.ts]>>
    ELSE <<>>

\* extract_signals of the workflow-message variant: checks (a), (b), (c)
ExtractSignals(event, check_identity, trusted) ==
    IF /\ AuthoredByBot(event)
       /\ check_identity => event.bot_id = trusted
       /\ MatchesPattern(event.text)
    THEN <<[resolving_agent_ref |-> MentionedAgent(event.text),
            thread_key |-> ThreadKey(event.text),
            raw_event_id |-> event.ts]>>
    ELSE <<>>

\* dedupe: a signal whose thread_key was credited before is discarded
Dedupe(signals, credited) ==
    SelectSeq(signals,
              LAMBDA sig : \A i \in 1..Len(credited) :
                               credited[i].thread # sig.thread_key)

\* one event through the validator, the deduplicator and the tally; the
\* identity check (b) is optional, so each event is tried with and without
WorkflowMessage ==
    /\ pc = "scan"
    /\ msg_i < Len(all_messages)
    /\ \E check_identity \in BOOLEAN :
        LET event == all_messages[msg_i + 1]
            signals == Dedupe(ExtractSignals(event, check_identity,
                                             DetectTrusted(all_messages)),
                              credits)
        IN /\ resolutions' = IF signals = <<>> THEN resolutions
                             ELSE Inc(resolutions, signals[1].resolving_agent_ref)
           /\ credits' = IF signals = <<>> THEN credits
                         ELSE Append(credits,
                                     [user |-> signals[1].resolving_agent_ref,
                                      name |-> signals[1].resolving_agent_ref,
                                      ts |-> signals[1].raw_event_id,
                                      thread |-> signals[1].thread_key])
    /\ msg_i' = msg_i + 1
    /\ served' = <<>>
    /\ UNCHANGED <<now, weeks_ago, start_date, end_date, pc, status,
                   weeks_to_process, widx, consulted, channel, guard, cursor,
                   all_messages, resolver_ids, blocks, lookups>>

(***************************************************************************)
(* post_leaderboard and main                                               *)
(***************************************************************************)
Post ==
    /\ pc = "post"
    /\ \E r \in ExecEnds :
        IF r.status = "returned"
        THEN /\ channel' = Append(channel, LeaderboardEntry(start_date, end_date))
             /\ blocks' = MostCommon(resolutions)
             /\ pc' = "next"
             /\ UNCHANGED <<now, weeks_ago, start_date, end_date, status,
                            weeks_to_process, widx, consulted, guard, cursor,
                            all_messages, msg_i, resolver_ids, resolutions, credits,
                            served, lookups>>
        ELSE Crash

\* lines 437-439 and the loop header
Advance ==
    /\ pc = "next"
    /\ LoopOn
    /\ UNCHANGED <<now, weeks_to_process, consulted, channel>>

\* weeks_to_process for: no argument, --weeks 0..2, --week 0..1
ArgvWeeks == {<<>>, <<0>>, <<0, 1>>, <<1>>}

\* main up to the for loop: the arguments and the connection check
StartRun ==
    /\ pc = "idle"
    /\ \E weeks \in ArgvWeeks, r \in ExecEnds :
        /\ Len(channel) + Len(weeks) <= MaxChan
        /\ weeks_to_process' = weeks
        /\ consulted' = <<>>
        /\ IF r.status # "returned"
           THEN pc' = "idle" /\ status' = "exit1" /\ widx' = 0
           ELSE IF weeks = <<>>
           THEN pc' = "idle" /\ status' = "complete" /\ widx' = 0
           ELSE pc' = "guard" /\ status' = "running" /\ widx' = 1
    /\ UNCHANGED <<now, weeks_ago, start_date, end_date, channel, guard>>
    /\ UNCHANGED countVars

\* main going on to count and post whatever the duplicate check said
SkipWeekNever(is_duplicate) == FALSE

\* if is_duplicate: ... continue
SkipWeek(is_duplicate) == is_duplicate

\* lines 410-421: the window, the duplicate check and the skip
Guard ==
    /\ pc = "guard"
    /\ \E r_auth \in ExecEnds, r_hist \in ExecEnds :
        LET w == weeks_to_process[widx]
            range == GetWeekRange(now, w)
            dup == CheckForDuplicateLeaderboard(r_auth, r_hist, Recent(channel),
                                                range[1], range[2])
            seen == [checked |-> TRUE,
                     failed |-> r_auth.status # "returned" \/ r_hist.status # "returned",
                     result |-> dup,
                     from |-> RecentFrom(channel), to |-> Len(channel)]
        IN /\ consulted' = Append(consulted, w)
           /\ IF SkipWeek(dup)
              THEN IF widx < Len(weeks_to_process)
                   THEN /\ widx' = widx + 1
                        /\ pc' = "guard"
                        /\ status' = status
                        /\ guard' = seen
                        /\ weeks_ago' = w
                        /\ start_date' = range[1]
                        /\ end_date' = range[2]
                   ELSE /\ widx' = widx
                        /\ pc' = "idle"
                        /\ status' = "complete"
                        /\ guard' = NoGuard
                        /\ weeks_ago' = 0
                        /\ start_date' = None
                        /\ end_date' = None
              ELSE /\ widx' = widx
                   /\ pc' = "fetch"
                   /\ status' = status
                   /\ guard' = seen
                   /\ weeks_ago' = w
                   /\ start_date' = range[1]
                   /\ end_date' = range[2]
    /\ UNCHANGED <<now, weeks_to_process, channel>>
    /\ UNCHANGED countVars

\* leaderboards the run in progress may still post
Pending == IF pc = "idle" THEN 0 ELSE Len(weeks_to_process) - widx + 1

\* somebody else writes to the leaderboard channel
EnvPost ==
    /\ Len(channel) + Pending < MaxChan
    /\ \E e \in EnvEntries : channel' = Append(channel, e)
    /\ UNCHANGED <<now, weeks_ago, start_date, end_date, pc, status,
                   weeks_to_process, widx, consulted, guard>>
    /\ UNCHANGED countVars

\* a day passes
Tick ==
    /\ now < MainNow0 + MaxTicks * SecondsPerDay
    /\ now' = now + SecondsPerDay
    /\ UNCHANGED <<weeks_ago, start_date, end_date>>
    /\ UNCHANGED runVars
    /\ UNCHANGED countVars

RunIdle ==
    /\ pc = "idle"
    /\ status = "none"
    /\ weeks_to_process = <<>>
    /\ widx = 0
    /\ consulted = <<>>
    /\ channel = <<>>
    /\ guard = NoGuard

\* no run yet, an empty channel, Monday noon
Init ==
    /\ now = MainNow0
    /\ weeks_ago = 0
    /\ start_date = None
    /\ end_date = None
    /\ RunIdle
    /\ CountIdle

\* one window, past a duplicate check that found nothing, with the
\* messages get_channel_messages returned
InitCount ==
    /\ now = MainNow0
    /\ weeks_ago = 0
    /\ start_date = GetWeekRange(MainNow0, 0)[1]
    /\ end_date = GetWeekRange(MainNow0, 0)[2]
    /\ pc = "scan"
    /\ status = "running"
    /\ weeks_to_process = <<0>>
    /\ widx = 1
    /\ consulted = <<0>>
    /\ channel = <<>>
    /\ guard = [checked |-> TRUE, failed |-> FALSE, result |-> FALSE,
                from |-> 1, to |-> 0]
    /\ cursor = None
    /\ all_messages \in MessageLists
    /\ msg_i = 0
    /\ resolver_ids = <<>>
    /\ resolutions = <<>>
    /\ credits = <<>>
    /\ blocks = <<>>
    /\ served = <<[cursor |-> None, page |-> all_messages, next_cursor |-> None]>>
    /\ lookups = {}

\* one window, past a duplicate check that found nothing, at the call of
\* get_channel_messages
InitFetch ==
    /\ now = MainNow0
    /\ weeks_ago = 0
    /\ start_date = GetWeekRange(MainNow0, 0)[1]
    /\ end_date = GetWeekRange(MainNow0, 0)[2]
    /\ pc = "fetch"
    /\ status = "running"
    /\ weeks_to_process = <<0>>
    /\ widx = 1
    /\ consulted = <<0>>
    /\ channel = <<>>
    /\ guard = [checked |-> TRUE, failed |-> FALSE, result |-> FALSE,
                from |-> 1, to |-> 0]
    /\ CountIdle

\* one window under the workflow-message strategy, with the fetched events
InitWorkflow ==
    /\ now = MainNow0
    /\ weeks_ago = 0
    /\ start_date = GetWeekRange(MainNow0, 0)[1]
    /\ end_date = GetWeekRange(MainNow0, 0)[2]
    /\ pc = "scan"
    /\ status = "running"
    /\ weeks_to_process = <<0>>
    /\ widx = 1
    /\ consulted = <<0>>
    /\ channel = <<>>
    /\ guard = [checked |-> TRUE, failed |-> FALSE, result |-> FALSE,
                from |-> 1, to |-> 0]
    /\ cursor = None
    /\ all_messages \in WorkflowHistories
    /\ msg_i = 0
    /\ resolver_ids = <<>>
    /\ resolutions = <<>>
    /\ credits = <<>>
    /\ blocks = <<>>
    /\ served = <<[cursor |-> None, page |-> all_messages, next_cursor |-> None]>>
    /\ lookups = {}

(***************************************************************************)
(* Properties of get_week_range (SpecWindow)                               *)
(***************************************************************************)
SecondsPerWeek == 7 * SecondsPerDay
\* Monday 00:00:00 of the week that contains t
WeekStart(t) == Midnight(t) - Weekday(t) * SecondsPerDay

\* C3: for every now, Monday included, the window of weeks_ago = 0 is the
\* week just before the one that contains now: it starts exactly 7 days
\* before the Monday 00:00:00 of the current week.
C3_LastWeekPrecedesCurrent ==
    (start_date # None /\ weeks_ago = 0)
        => start_date = WeekStart(now) - SecondsPerWeek

\* C4: the window starts on a Monday at 00:00:00 strictly before now, ends
\* 6 days 23:59:59 later, and the start for weeks_ago + 1 lies exactly 7
\* days before the start for weeks_ago.
C4_WindowShape ==
    start_date # None =>
        /\ Weekday(start_date) = 0
        /\ start_date % SecondsPerDay = 0
        /\ start_date < now
        /\ end_date = start_date + 6 * SecondsPerDay + 86399
        /\ GetWeekRange(now, weeks_ago + 1)[1] = start_date - SecondsPerWeek

C4_Witness ==
    /\ start_date # None
    /\ Weekday(now) = 0
    /\ now % SecondsPerDay = 43200
    /\ weeks_ago = 1

(***************************************************************************)
(* Properties of retry_api_call (SpecExec)                                 *)
(***************************************************************************)
RetryableErrors == {"rate_limited"} \cup TransientErrors

\* C5: the call is invoked at most MAX_RETRIES times, each iteration uses
\* one of them up, a returned value is that of the first successful
\* invocation, and MAX_RETRIES retryable failures in a row end in a raise.
C5_BoundedRetries ==
    /\ exec.calls = Len(outcomes)
    /\ exec.calls <= MAX_RETRIES
    /\ exec.status = "running" => exec.calls < MAX_RETRIES
    /\ exec.status = "returned" =>
        /\ outcomes[Len(outcomes)].error = "ok"
        /\ exec.value = outcomes[Len(outcomes)].value
        /\ \A i \in 1..(Len(outcomes) - 1) : outcomes[i].error # "ok"
    /\ (/\ Len(outcomes) = MAX_RETRIES
        /\ \A i \in 1..MAX_RETRIES : outcomes[i].error \in RetryableErrors)
            => exec.status = "raised" /\ exec.value = None

C5_Witness ==
    /\ Len(outcomes) = MAX_RETRIES
    /\ outcomes[1].error = "rate_limited"
    /\ outcomes[2].error \in TransientErrors
    /\ outcomes[3].error = "rate_limited"
    /\ exec.status = "raised"

\* C6: an error that is neither rate_limited nor transient is re-raised by
\* the invocation it occurs on: that invocation is the last one, and no
\* sleep follows it (the sleeps are those of the earlier failures).
C6_FatalRaisedAtOnce ==
    \A i \in 1..Len(outcomes) :
        outcomes[i].error \in FatalErrors =>
            /\ i = Len(outcomes)
            /\ exec.status = "raised"
            /\ exec.exc = "SlackApiError"
            /\ exec.error = outcomes[i].error
            /\ exec.calls = i
            /\ Len(exec.sleeps) = i - 1

C6_Witness ==
    /\ Len(outcomes) = 2
    /\ outcomes[1].error = "rate_limited"
    /\ outcomes[2].error \in FatalErrors
    /\ exec.status = "raised"

\* how many of the first i invocations ended in a transient service error
TransientUpTo(i) ==
    Cardinality({k \in 1..i : outcomes[k].error \in TransientErrors})

\* C14: the sleep that follows the j-th transient service error of a call
\* lasts INITIAL_RETRY_DELAY * 2^(j-1), whatever rate-limited responses came
\* before it.
C14_BackoffUntouchedByRateLimit ==
    \A i \in 1..Len(exec.sleeps) :
        outcomes[i].error \in TransientErrors =>
            exec.sleeps[i] = INITIAL_RETRY_DELAY * 2 ^ (TransientUpTo(i) - 1)

\* C15: the sleep that follows a rate-limited response lasts the reported
\* Retry-After, or INITIAL_RETRY_DELAY when none is reported, whatever
\* happened on the earlier attempts; the call is then invoked again.
C15_RateLimitSleepsRetryAfter ==
    \A i \in 1..Len(outcomes) :
        outcomes[i].error = "rate_limited" =>
            /\ Len(exec.sleeps) >= i
            /\ exec.sleeps[i] = IF outcomes[i].retry_after = NoHeader
                                THEN INITIAL_RETRY_DELAY
                                ELSE outcomes[i].retry_after
            /\ i < MAX_RETRIES => (exec.status = "running" \/ Len(outcomes) > i)

\* C16: two transient service errors followed by a success: the call is
\* invoked three times, the third result is returned, and the sleeps are
\* INITIAL_RETRY_DELAY and then twice that.
C16_TwoTransientThenSuccess ==
    (/\ Len(outcomes) >= 2
     /\ outcomes[1].error \in TransientErrors
     /\ outcomes[2].error \in TransientErrors) =>
        /\ SubSeq(exec.sleeps, 1, 2) = <<INITIAL_RETRY_DELAY, 2 * INITIAL_RETRY_DELAY>>
        /\ Len(outcomes) = 2 => (exec.status = "running" /\ exec.calls = 2)
        /\ (Len(outcomes) = 3 /\ outcomes[3].error = "ok") =>
                /\ exec.status = "returned"
                /\ Len(exec.sleeps) = 2
                /\ exec.calls = 3
                /\ exec.value = outcomes[3].value

C16_Witness ==
    /\ Len(outcomes) = 3
    /\ outcomes[1].error \in TransientErrors
    /\ outcomes[2].error \in TransientErrors
    /\ outcomes[3].error = "ok"
    /\ exec.status = "returned"

(***************************************************************************)
(* Properties of get_channel_messages (SpecFetch)                          *)
(***************************************************************************)
RECURSIVE ConcatPages(_)
ConcatPages(reqs) ==
    IF reqs = <<>> THEN <<>>
    ELSE ConcatPages(SubSeq(reqs, 1, Len(reqs) - 1)) \o reqs[Len(reqs)].page

\* the first request carries no cursor, every later one the next_cursor of
\* the response before it
CursorsPassedOn ==
    \A i \in 1..Len(served) :
        served[i].cursor = IF i = 1 THEN None ELSE served[i - 1].next_cursor

\* C19: while pages come with a cursor the fetch goes on, handing each
\* cursor to the next request; it returns when a page comes without one, and
\* returns the pages' messages concatenated in page order; when a page
\* request fails, the call raises and returns nothing.
C19_FetchAllPagesInOrder ==
    /\ pc = "fetch" =>
            /\ CursorsPassedOn
            /\ \A i \in 1..Len(served) : served[i].next_cursor # None
            /\ cursor = IF served = <<>> THEN None
                        ELSE served[Len(served)].next_cursor
    /\ (pc = "scan" /\ msg_i = 0) =>
            /\ served # <<>>
            /\ CursorsPassedOn
            /\ \A i \in 1..Len(served) :
                    (served[i].next_cursor = None) <=> (i = Len(served))
            /\ all_messages = ConcatPages(served)
    /\ status = "crashed" => (pc = "idle" /\ all_messages = <<>>)

C19_Witness ==
    /\ pc = "scan"
    /\ Len(served) = 3
    /\ served[1].next_cursor # served[2].next_cursor
    /\ served[1].page # <<>>
    /\ served[3].page # <<>>
    /\ served[1].page # served[3].page

(***************************************************************************)
(* Properties of the counting loop (SpecCount)                             *)
(***************************************************************************)
\* C7: a resolution reaction by an actor flagged as a bot never adds
\* credit, whatever else the actor's record has or lacks.
C7_NoCreditForBots ==
    \A i \in 1..Len(credits) : ~FlaggedBot(credits[i].user)

\* C8: within one run every credit of one actor reference goes to one
\* display name, also when some of the actor's lookups fail.
C8_OneNamePerActor ==
    \A i, j \in 1..Len(credits) :
        credits[i].user = credits[j].user => credits[i].name = credits[j].name

\* the tally the credits add up to, and where a name got its first credit
CreditCount(name) == Cardinality({i \in 1..Len(credits) : credits[i].name = name})
FirstCredit(name) ==
    CHOOSE i \in 1..Len(credits) :
        /\ credits[i].name = name
        /\ \A j \in 1..(i - 1) : credits[j].name # name

\* C11: the posted leaderboard lists every credited name once with its
\* tally, in descending order of count, and among equal counts the name
\* whose first credit came earlier stands first.
C11_RankedByCountThenFirstSeen ==
    pc = "next" =>
        /\ {blocks[i].name : i \in 1..Len(blocks)}
                = {credits[i].name : i \in 1..Len(credits)}
        /\ \A i \in 1..Len(blocks) : blocks[i].count = CreditCount(blocks[i].name)
        /\ \A i, j \in 1..Len(blocks) :
            i < j =>
                \/ blocks[i].count > blocks[j].count
                \/ /\ blocks[i].count = blocks[j].count
                   /\ FirstCredit(blocks[i].name) < FirstCredit(blocks[j].name)

C11_Witness ==
    /\ pc = "next"
    /\ Len(blocks) = 3
    /\ blocks[1].count = 2
    /\ blocks[2].count = blocks[3].count
    /\ blocks[1].name # resolutions[1].name

\* C18: no two credits of a window go to the same actor for the same
\* message, whatever messages the fetch returned and whatever reactors the
\* lookups listed.
C18_OneCreditPerActorAndEvent ==
    \A i, j \in 1..Len(credits) :
        (credits[i].user = credits[j].user /\ credits[i].ts = credits[j].ts) => i = j

\* C20: the step that looks up one message's reactions never ends the run;
\* when the lookup fails, the message adds no credit and the loop is at the
\* next message.
C20_LookupFailureNeverAborts ==
    [][(pc = "scan" /\ msg_i < Len(all_messages)) =>
            /\ status' # "crashed"
            /\ lookups' # lookups =>
                    (pc' = "scan" /\ msg_i' = msg_i + 1 /\ credits' = credits)]_vars

(***************************************************************************)
(* Properties of the workflow-message strategy (SpecWorkflow)              *)
(***************************************************************************)
\* C12: under the workflow-message strategy an event that no bot wrote, or
\* whose text lacks "thread resolved by <mention>", gives no signal: no
\* credit comes from it, and the tally holds the credits and nothing else.
C12_OnlyBotPatternEventsCredit ==
    /\ \A i \in 1..msg_i :
            (\/ all_messages[i].bot_id = "none"
             \/ ~MatchesPattern(all_messages[i].text)) =>
                \A k \in 1..Len(credits) : credits[k].ts # all_messages[i].ts
    /\ \A k \in 1..Len(resolutions) :
            resolutions[k].count = CreditCount(resolutions[k].name)

C12_Witness ==
    /\ msg_i = 2
    /\ all_messages[1].bot_id = "none"
    /\ MatchesPattern(all_messages[1].text)
    /\ all_messages[2].bot_id # "none"
    /\ ~MatchesPattern(all_messages[2].text)
    /\ credits = <<>>

(***************************************************************************)
(* Properties of the runs of main (Spec)                                   *)
(***************************************************************************)
\* a leaderboard the bot posted
IsLeaderboardPost(e) == e.user = BotUser /\ e.title

\* C1: the channel never holds two leaderboard posts with the same week
\* label.
C1_NoDuplicatePost ==
    \A i, j \in 1..Len(channel) :
        (i < j /\ IsLeaderboardPost(channel[i]) /\ IsLeaderboardPost(channel[j]))
            => channel[i].label # channel[j].label

\* C1, as amended: a leaderboard is posted for a week label the channel
\* already holds a leaderboard for only if the duplicate check before the
\* post failed, or the earlier post was older than the entries it scanned.
C1_DuplicateOnlyPastGuard ==
    [][(/\ Len(channel') = Len(channel) + 1
        /\ IsLeaderboardPost(channel'[Len(channel')]))
       => \A i \in 1..Len(channel) :
            (/\ IsLeaderboardPost(channel[i])
             /\ channel[i].label = channel'[Len(channel')].label)
                => (guard.failed \/ i < guard.from)]_vars

C1_Witness ==
    /\ guard.checked
    /\ guard.result
    /\ \E i, j \in 1..Len(channel) :
        /\ i < j
        /\ IsLeaderboardPost(channel[i])
        /\ channel[j] = channel[i]

\* C13: the window being fetched, counted or posted has had its duplicate
\* check, and the check said no; a check that said yes is followed at once by
\* the next week's check, with nothing fetched, looked up, counted or posted.
C13_GuardBeforeFetchAndSkip ==
    /\ pc \in {"fetch", "scan", "credit", "post", "next"} =>
            /\ Len(consulted) = widx
            /\ consulted[widx] = weeks_to_process[widx]
            /\ guard.checked
            /\ ~guard.result
    /\ pc = "guard" => (Len(consulted) = widx - 1 /\ CountIdle)
    /\ (guard.checked /\ guard.result) =>
            /\ pc = "guard"
            /\ consulted[widx - 1] = weeks_to_process[widx - 1]
            /\ CountIdle

C13_Witness ==
    /\ guard.checked
    /\ guard.result
    /\ pc = "guard"
    /\ weeks_to_process = <<0, 1>>
    /\ widx = 2

\* C17: a window in which a reaction lookup ended in a non-retryable error
\* other than "message not found" gets no leaderboard post (a failed history
\* page request ends the run at once, so no post follows it either).
C17_FatalLookupAbortsWindow ==
    pc = "next" => "other" \notin lookups

\* C2: a failure in one week's pipeline does not end the run: when a run
\* that got to its loop has ended, the duplicate check has been consulted
\* for every requested week.
C2_LaterWeeksProcessed ==
    (pc = "idle" /\ status \in {"complete", "crashed"})
        => consulted = weeks_to_process

\* C9: when a call of the duplicate check fails, the check returns False,
\* the run goes on with that window's fetch, count and post, and once the
\* loop is past the post (pc is "next", or "guard" for the week after) the
\* window's leaderboard is in the channel.
C9_ScanFailureFailsOpen ==
    (guard.checked /\ guard.failed) =>
        /\ ~guard.result
        /\ status = "running"
        /\ pc \in {"fetch", "scan", "credit", "post", "next", "guard"}
        /\ pc \in {"next", "guard"} =>
            \E i \in (guard.to + 1)..Len(channel) :
                channel[i] = LeaderboardEntry(start_date, end_date)

C9_Witness ==
    /\ guard.checked
    /\ guard.failed
    /\ pc = "next"

\* the entries the duplicate check got from conversations_history
Scanned == IF guard.failed THEN {} ELSE guard.from..guard.to

\* C10: the duplicate check returns True exactly if one of the scanned
\* entries is the bot's own and contains the window's date range.
C10_SelfAuthoredWithLabel ==
    guard.checked =>
        (guard.result <=>
            \E i \in Scanned :
                /\ channel[i].user = BotUser
                /\ channel[i].label = DateRangeStr(start_date, end_date))

\* C10, as amended: ... is the bot's own, contains "Weekly Resolution
\* Leaderboard" and contains the window's date range.
C10_SelfAuthoredTitleAndLabel ==
    guard.checked =>
        (guard.result <=>
            \E i \in Scanned :
                /\ channel[i].user = BotUser
                /\ channel[i].title
                /\ channel[i].label = DateRangeStr(start_date, end_date))

C10_Witness ==
    /\ guard.checked
    /\ guard.result
    /\ \E i \in Scanned :
        /\ channel[i].user # BotUser
        /\ channel[i].label = DateRangeStr(start_date, end_date)

(***************************************************************************)
(* Specifications                                                          *)
(***************************************************************************)
WindowIdle == now = 0 /\ weeks_ago = 0 /\ start_date = None /\ end_date = None
ExecIdle == outcomes = <<>> /\ exec = NotCalled

NextWindow == GetWeekRangeCall /\ UNCHANGED <<execVars, runVars, countVars>>
WindowInit == InitWindow /\ ExecIdle /\ RunIdle /\ CountIdle
SpecWindow == WindowInit /\ [][NextWindow]_vars

NextExec == Attempt /\ UNCHANGED <<windowVars, runVars, countVars>>
ExecInit == InitExec /\ WindowIdle /\ RunIdle /\ CountIdle
SpecExec == ExecInit /\ [][NextExec]_vars

\* one window from the fetched messages to the post
NextCount ==
    \/ (NextMessage(ReactionDicts) /\ UNCHANGED execVars)
    \/ (Credit /\ UNCHANGED execVars)
    \/ (CountReturn /\ UNCHANGED execVars)
    \/ (Post /\ UNCHANGED execVars)
    \/ (Advance /\ UNCHANGED execVars)
CountInit == InitCount /\ ExecIdle
SpecCount == CountInit /\ [][NextCount]_vars

\* one call of get_channel_messages, any pages and cursors
NextFetch == FetchPage(FetchPages, FetchMaxPages, CursorTokens) /\ UNCHANGED execVars
FetchInit == InitFetch /\ ExecIdle
SpecFetch == FetchInit /\ [][NextFetch]_vars

\* one window counted by the workflow-message strategy
NextWorkflow ==
    \/ (WorkflowMessage /\ UNCHANGED execVars)
    \/ (CountReturn /\ UNCHANGED execVars)
WorkflowInit == InitWorkflow /\ ExecIdle
SpecWorkflow == WorkflowInit /\ [][NextWorkflow]_vars

\* runs of main, one after the other, on a channel others write to
Next ==
    \/ (StartRun /\ UNCHANGED execVars)
    \/ (Guard /\ UNCHANGED execVars)
    \/ (FetchPage(MainPages, MainMaxPages, MainTokens) /\ UNCHANGED execVars)
    \/ (NextMessage(MainReactionDicts) /\ UNCHANGED execVars)
    \/ (Credit /\ UNCHANGED execVars)
    \/ (CountReturn /\ UNCHANGED execVars)
    \/ (Post /\ UNCHANGED execVars)
    \/ (Advance /\ UNCHANGED execVars)
    \/ (EnvPost /\ UNCHANGED execVars)
    \/ (Tick /\ UNCHANGED execVars)
MainInit == Init /\ ExecIdle
Spec == MainInit /\ [][Next]_vars

====
